---- MODULE Spec2Model ----
(***************************************************************************)
(* House Points System (src/script.js): the persisted document, the ledger *)
(* operations (submitAwardForm, deleteTransaction), the house and student  *)
(* management handlers, the edit-student overlay and the sorting wheel.    *)
(*                                                                         *)
(* Conventions.  A JavaScript string is a sequence of one-character        *)
(* strings.  null / undefined / NaN ids are the number 0 (ids start at 1). *)
(* An absent houseLimits key is NoLimit.                                   *)
(*                                                                         *)
(* Every handler is an operator from the stored document and the handler's *)
(* inputs to a result record: .doc is what localStorage holds when the     *)
(* handler returns, .wrote tells whether saveData ran, .ok whether the     *)
(* handler took effect.  The actions apply these operators to the state.   *)
(*                                                                         *)
(* Fields no modelled handler reads are left out of the records: color and *)
(* logo of a house, photo of a student, timestamp and teacherUsername of a *)
(* ledger entry, name, password and houseId of a user.                     *)
(*                                                                         *)
(* The handlers of a page close over the `data` object parsed when the     *)
(* page was rendered, mutate it and save it; a page is rendered anew after *)
(* every handler that saved, so between handlers that object equals the    *)
(* stored document.  The one closure that outlives its page is the         *)
(* completion of a file read: `read` holds it together with its `data`.    *)
(*                                                                         *)
(* Every handler takes its document from loadData, which applies           *)
(* ensureSchema to what is stored.  An array field of a user is a record   *)
(* [isArray, items]; a field that is absent or not an array is NotArray.   *)
(* A value handed to the normalizeGrade routines is a record [type, ...]   *)
(* (undefined, null, a number or a string); `call` holds the value handed  *)
(* over and what each routine returned for it.                             *)
(***************************************************************************)
EXTENDS Integers, Sequences, FiniteSets, TLC

\* ------------------------------------------------------------------ bounds
\* an entity is created only while its counter is within the bound
MaxHouseId == 2
MaxStudentId == 2
MaxTxnId == 2
\* largest absolute value typed into the Points field
MaxAmount == 1
\* the edit overlay can move points between houses without end; cap |points|
MaxHousePoints == 1
\* reward ids, as the other ids
MaxRewardId == 2
\* largest capacity typed into a Limit field of the wheel page
MaxLimit == 2
\* handlers that run while a file read is in flight
MaxReadSteps == 2

Null == 0
NoLimit == -1

\* ------------------------------------------------------------------ strings
LowerChar(c) ==
    CASE c = "A" -> "a" [] c = "B" -> "b" [] c = "C" -> "c" [] c = "D" -> "d"
      [] c = "E" -> "e" [] c = "F" -> "f" [] c = "G" -> "g" [] c = "H" -> "h"
      [] c = "I" -> "i" [] c = "J" -> "j" [] c = "K" -> "k" [] c = "L" -> "l"
      [] c = "M" -> "m" [] c = "N" -> "n" [] c = "O" -> "o" [] c = "P" -> "p"
      [] c = "Q" -> "q" [] c = "R" -> "r" [] c = "S" -> "s" [] c = "T" -> "t"
      [] c = "U" -> "u" [] c = "V" -> "v" [] c = "W" -> "w" [] c = "X" -> "x"
      [] c = "Y" -> "y" [] c = "Z" -> "z" [] OTHER -> c

toLowerCase(s) == [i \in DOMAIN s |-> LowerChar(s[i])]

\* the white space String.prototype.trim removes, as far as the inputs need it
IsSpace(c) == c \in {" ", "\t", "\n"}

RECURSIVE trimStart(_)
trimStart(s) ==
    IF s # <<>> /\ IsSpace(Head(s)) THEN trimStart(Tail(s)) ELSE s

RECURSIVE trimEnd(_)
trimEnd(s) ==
    IF s # <<>> /\ IsSpace(s[Len(s)]) THEN trimEnd(SubSeq(s, 1, Len(s) - 1)) ELSE s

trim(s) == trimEnd(trimStart(s))

\* ------------------------------------------------------------------ arrays
\* Array.prototype.findIndex on the id field: first position, 0 when absent
FindIndex(arr, id) ==
    IF \E i \in DOMAIN arr : arr[i].id = id
    THEN CHOOSE i \in DOMAIN arr :
            /\ arr[i].id = id
            /\ \A j \in DOMAIN arr : arr[j].id = id => i <= j
    ELSE 0

\* arr.filter(x => x.id !== id)
RECURSIVE FilterOutId(_, _)
FilterOutId(arr, id) ==
    IF arr = <<>> THEN <<>>
    ELSE IF Head(arr).id = id THEN FilterOutId(Tail(arr), id)
    ELSE <<Head(arr)>> \o FilterOutId(Tail(arr), id)

\* arr.splice(idx, 1)
Splice(arr, idx) ==
    SubSeq(arr, 1, idx - 1) \o SubSeq(arr, idx + 1, Len(arr))

\* obj = arr.find(x => x.id === id); if (obj) obj.points += delta
AddPoints(arr, id, delta) ==
    LET i == FindIndex(arr, id)
    IN  IF i = 0 THEN arr ELSE [arr EXCEPT ![i].points = @ + delta]

Ids(arr) == {arr[i].id : i \in DOMAIN arr}

\* ------------------------------------------------------------------ state
VARIABLES
    doc,    \* the document stored under STORAGE_KEY in localStorage
    read,   \* the FileReader in flight for a house logo, with its closure
    call    \* a grade value handed to the normalizeGrade routines, and their results

vars == <<doc, read, call>>

HouseIds == 1..MaxHouseId
StudentIds == 1..MaxStudentId
TxnIds == 1..MaxTxnId

\* an array-valued field of a user record; a record written before the field
\* existed has none (Array.isArray is false)
NotArray == [isArray |-> FALSE, items |-> <<>>]
Arr(items) == [isArray |-> TRUE, items |-> items]

Str_admin == <<"a", "d", "m", "i", "n">>

\* { username: 'admin', password: 'admin123', role: 'admin' }
adminUser ==
    [username |-> Str_admin, role |-> "admin",
     gradeAccess |-> NotArray, accessibleStudentIds |-> NotArray]

\* initData
initData ==
    [ users |-> <<adminUser>>,
      houses |-> <<>>,
      students |-> <<>>,
      transactions |-> <<>>,
      rewards |-> <<>>,
      houseLimits |-> [h \in HouseIds |-> NoLimit],
      nextHouseId |-> 1,
      nextStudentId |-> 1,
      nextTransactionId |-> 1,
      nextRewardId |-> 1 ]

\* ensureSchema: teachers get the two array fields they lack
ensureSchema(data) ==
    [data EXCEPT !.users =
        [i \in DOMAIN @ |->
            LET u == @[i] IN
            IF u.role = "teacher"
            THEN [u EXCEPT
                    !.accessibleStudentIds = IF ~@.isArray THEN Arr(<<>>) ELSE @,
                    !.gradeAccess = IF ~@.isArray THEN Arr(<<>>) ELSE @]
            ELSE u]]

\* loadData: ensureSchema(JSON.parse(localStorage.getItem(STORAGE_KEY)))
loadData(stored) == ensureSchema(stored)

\* showSection: the render function of the section loads the document and
\* builds the page from it; nothing is saved
showSection(stored) ==
    LET data == loadData(stored) IN
    [doc |-> stored, wrote |-> FALSE, ok |-> TRUE, why |-> "shown", data |-> data]

\* a handler that returned (or threw) before saveData
Rejected(stored, why) ==
    [doc |-> stored, wrote |-> FALSE, ok |-> FALSE, why |-> why]

\* a handler that ran to saveData(data)
Saved(data) ==
    [doc |-> data, wrote |-> TRUE, ok |-> TRUE, why |-> "saved"]

PointsOf(arr, id) ==
    LET i == FindIndex(arr, id) IN IF i = 0 THEN 0 ELSE arr[i].points

\* ------------------------------------------------------------------ inputs
\* parseInt(amountInput.value): NaN for an empty field
AmountInputs ==
    {[nan |-> TRUE, n |-> 0]} \cup {[nan |-> FALSE, n |-> k] : k \in (0 - MaxAmount)..MaxAmount}

Str_ok == <<"o", "k">>

\* what is typed into the Reason field
Notes == { <<>>, <<" ">>, <<"\t", " ">>, Str_ok, <<" ">> \o Str_ok \o <<"\n">> }


Modes == {"add", "take"}

\* ------------------------------------------------------------------ ledger
\* submitAwardForm without `student.points += amount`
submitAwardForm_noStudentPoints(stored, studentId, amt, noteRaw, mode) ==
    LET note == trim(noteRaw) IN
    IF studentId = Null \/ amt.nan
    THEN Rejected(stored, "input")
    ELSE IF note = <<>>
    THEN Rejected(stored, "note")
    ELSE
      LET amount == IF mode = "take" /\ amt.n > 0 THEN 0 - amt.n ELSE amt.n
          data == loadData(stored)
          si == FindIndex(data.students, studentId)
      IN
      IF si = 0
      THEN \* student is undefined: student.houseId throws a TypeError
           Rejected(stored, "TypeError")
      ELSE
        LET student == data.students[si]
            hi == FindIndex(data.houses, student.houseId)
            houseId == IF hi = 0 THEN Null ELSE data.houses[hi].id
            txn == [ id |-> data.nextTransactionId,
                     studentId |-> student.id,
                     houseId |-> houseId,
                     amount |-> amount,
                     note |-> note ]
        IN
        Saved([data EXCEPT
                !.houses = AddPoints(@, student.houseId, amount),
                !.nextTransactionId = @ + 1,
                !.transactions = Append(@, txn)])

\* submitAwardForm storing no houseId in the entry
submitAwardForm_noHouseId(stored, studentId, amt, noteRaw, mode) ==
    LET note == trim(noteRaw) IN
    IF studentId = Null \/ amt.nan
    THEN Rejected(stored, "input")
    ELSE IF note = <<>>
    THEN Rejected(stored, "note")
    ELSE
      LET amount == IF mode = "take" /\ amt.n > 0 THEN 0 - amt.n ELSE amt.n
          data == loadData(stored)
          si == FindIndex(data.students, studentId)
      IN
      IF si = 0
      THEN \* student is undefined: student.houseId throws a TypeError
           Rejected(stored, "TypeError")
      ELSE
        LET student == data.students[si]
            hi == FindIndex(data.houses, student.houseId)
            houseId == IF hi = 0 THEN Null ELSE data.houses[hi].id
            txn == [ id |-> data.nextTransactionId,
                     studentId |-> student.id,
                     houseId |-> Null,
                     amount |-> amount,
                     note |-> note ]
        IN
        Saved([data EXCEPT
                !.students = AddPoints(@, studentId, amount),
                !.houses = AddPoints(@, student.houseId, amount),
                !.nextTransactionId = @ + 1,
                !.transactions = Append(@, txn)])

\* submitAwardForm reading the note without trim()
submitAwardForm_noTrim(stored, studentId, amt, noteRaw, mode) ==
    LET note == noteRaw IN
    IF studentId = Null \/ amt.nan
    THEN Rejected(stored, "input")
    ELSE IF note = <<>>
    THEN Rejected(stored, "note")
    ELSE
      LET amount == IF mode = "take" /\ amt.n > 0 THEN 0 - amt.n ELSE amt.n
          data == loadData(stored)
          si == FindIndex(data.students, studentId)
      IN
      IF si = 0
      THEN \* student is undefined: student.houseId throws a TypeError
           Rejected(stored, "TypeError")
      ELSE
        LET student == data.students[si]
            hi == FindIndex(data.houses, student.houseId)
            houseId == IF hi = 0 THEN Null ELSE data.houses[hi].id
            txn == [ id |-> data.nextTransactionId,
                     studentId |-> student.id,
                     houseId |-> houseId,
                     amount |-> amount,
                     note |-> note ]
        IN
        Saved([data EXCEPT
                !.students = AddPoints(@, studentId, amount),
                !.houses = AddPoints(@, student.houseId, amount),
                !.nextTransactionId = @ + 1,
                !.transactions = Append(@, txn)])

\* submitAwardForm(form): studentId is the parsed selection (Null for none)
submitAwardForm(stored, studentId, amt, noteRaw, mode) ==
    LET note == trim(noteRaw) IN
    IF studentId = Null \/ amt.nan
    THEN Rejected(stored, "input")
    ELSE IF note = <<>>
    THEN Rejected(stored, "note")
    ELSE
      LET amount == IF mode = "take" /\ amt.n > 0 THEN 0 - amt.n ELSE amt.n
          data == loadData(stored)
          si == FindIndex(data.students, studentId)
      IN
      IF si = 0
      THEN \* student is undefined: student.houseId throws a TypeError
           Rejected(stored, "TypeError")
      ELSE
        LET student == data.students[si]
            hi == FindIndex(data.houses, student.houseId)
            houseId == IF hi = 0 THEN Null ELSE data.houses[hi].id
            txn == [ id |-> data.nextTransactionId,
                     studentId |-> student.id,
                     houseId |-> houseId,
                     amount |-> amount,
                     note |-> note ]
        IN
        Saved([data EXCEPT
                !.students = AddPoints(@, studentId, amount),
                !.houses = AddPoints(@, student.houseId, amount),
                !.nextTransactionId = @ + 1,
                !.transactions = Append(@, txn)])

\* deleteTransaction without the house reversal
deleteTransaction_noHouse(stored, txnId) ==
    LET data == loadData(stored)
        idx == FindIndex(data.transactions, txnId)
    IN
    IF idx = 0
    THEN Rejected(stored, "miss")
    ELSE
      LET txn == data.transactions[idx] IN
      Saved([data EXCEPT
              !.students = AddPoints(@, txn.studentId, 0 - txn.amount),
              !.transactions = Splice(@, idx)])

\* deleteTransaction saving and returning true on a miss
deleteTransaction_missTrue(stored, txnId) ==
    LET data == loadData(stored)
        idx == FindIndex(data.transactions, txnId)
    IN
    IF idx = 0
    THEN Saved(data)
    ELSE
      LET txn == data.transactions[idx] IN
      Saved([data EXCEPT
              !.students = AddPoints(@, txn.studentId, 0 - txn.amount),
              !.houses = IF txn.houseId # Null
                         THEN AddPoints(@, txn.houseId, 0 - txn.amount)
                         ELSE @,
              !.transactions = Splice(@, idx)])

\* deleteTransaction reversing the student's current house, not the stored one
deleteTransaction_liveHouse(stored, txnId) ==
    LET data == loadData(stored)
        idx == FindIndex(data.transactions, txnId)
    IN
    IF idx = 0
    THEN Rejected(stored, "miss")
    ELSE
      LET txn == data.transactions[idx] IN
      Saved([data EXCEPT
              !.students = AddPoints(@, txn.studentId, 0 - txn.amount),
              !.houses = LET si == FindIndex(data.students, txn.studentId) IN
                         IF si # 0
                         THEN AddPoints(@, data.students[si].houseId, 0 - txn.amount)
                         ELSE @,
              !.transactions = Splice(@, idx)])

\* deleteTransaction(txnId); .ok is the return value
deleteTransaction(stored, txnId) ==
    LET data == loadData(stored)
        idx == FindIndex(data.transactions, txnId)
    IN
    IF idx = 0
    THEN Rejected(stored, "miss")
    ELSE
      LET txn == data.transactions[idx] IN
      Saved([data EXCEPT
              !.students = AddPoints(@, txn.studentId, 0 - txn.amount),
              !.houses = IF txn.houseId # Null
                         THEN AddPoints(@, txn.houseId, 0 - txn.amount)
                         ELSE @,
              !.transactions = Splice(@, idx)])

\* ------------------------------------------------------------------ houses
Str_darwin == <<"d", "a", "r", "w", "i", "n">>
Str_Oak == <<"O", "a", "k">>
Str_Darwin == <<"D", "a", "r", "w", "i", "n">>

\* what is typed into the House Name field
HouseNameInputs == { <<" ">>, Str_darwin, <<" ">> \o Str_Oak }

\* renderManageHouses: form.onsubmit with no logo file chosen -> createHouse(null)
addHouse(stored, nameRaw) ==
    LET data == loadData(stored)
        name == trim(nameRaw)
    IN
    IF name = <<>>
    THEN Rejected(stored, "name")
    ELSE IF \E i \in DOMAIN data.houses :
              toLowerCase(data.houses[i].name) = toLowerCase(name)
    THEN Rejected(stored, "duplicate")
    ELSE
      LET house == [id |-> data.nextHouseId, name |-> name, points |-> 0] IN
      Saved([data EXCEPT !.nextHouseId = @ + 1, !.houses = Append(@, house)])

\* the delete handler without the assigned-students guard
deleteHouse_noGuard(stored, houseId) ==
    LET data == loadData(stored) IN
    Saved([data EXCEPT !.houses = FilterOutId(@, houseId)])

\* the delete handler looking at the first student only
deleteHouse_firstStudent(stored, houseId) ==
    LET data == loadData(stored) IN
    IF data.students # <<>> /\ data.students[1].houseId = houseId
    THEN Rejected(stored, "assigned")
    ELSE Saved([data EXCEPT !.houses = FilterOutId(@, houseId)])

\* renderManageHouses: btnDel.onclick of a listed house
deleteHouse(stored, houseId) ==
    LET data == loadData(stored) IN
    IF \E i \in DOMAIN data.students : data.students[i].houseId = houseId
    THEN Rejected(stored, "assigned")
    ELSE Saved([data EXCEPT !.houses = FilterOutId(@, houseId)])

\* what the two prompts of the Edit button return: null when cancelled
RenameInputs ==
    {[cancel |-> TRUE, text |-> <<>>]}
    \cup {[cancel |-> FALSE, text |-> t] : t \in { <<" ">>, Str_Darwin, Str_Oak \o <<" ">> }}

\* renderManageHouses: btnEdit.onclick on the listed house houseId
renameHouse(stored, houseId, newName) ==
    LET data == loadData(stored)
        trimmed == trim(newName.text)
        idx == FindIndex(data.houses, houseId)
    IN
    IF newName.cancel THEN Rejected(stored, "cancelled")
    ELSE IF trimmed = <<>> THEN Rejected(stored, "name")
    ELSE IF \E k \in DOMAIN data.houses :
              /\ data.houses[k].id # houseId
              /\ toLowerCase(data.houses[k].name) = toLowerCase(trimmed)
    THEN Rejected(stored, "duplicate")
    ELSE Saved([data EXCEPT !.houses[idx].name = trimmed])


\* ------------------------------------------------------------------ students
Str_Al == <<"A", "l">>

StudentNameInputs == { <<>>, Str_Al }

\* renderManageStudents: form.onsubmit; houseIdVal is "" (Null) or a listed house
addStudent(stored, nameRaw, gradeRaw, houseIdVal) ==
    LET data == loadData(stored)
        name == trim(nameRaw)
        grade == trim(gradeRaw)
    IN
    IF name = <<>>
    THEN Rejected(stored, "name")
    ELSE
      LET student == [id |-> data.nextStudentId, name |-> name, grade |-> grade,
                      houseId |-> houseIdVal, points |-> 0] IN
      Saved([data EXCEPT !.nextStudentId = @ + 1, !.students = Append(@, student)])

\* the delete handler without `house.points -= student.points`
deleteStudent_noHouse(stored, studentId) ==
    LET data == loadData(stored) IN
    Saved([data EXCEPT !.students = FilterOutId(@, studentId)])

\* renderManageStudents: btnDel.onclick of a listed student, confirmed
deleteStudent(stored, studentId) ==
    LET data == loadData(stored)
        student == data.students[FindIndex(data.students, studentId)]
    IN
    Saved([data EXCEPT
            !.houses = AddPoints(@, student.houseId, 0 - student.points),
            !.students = FilterOutId(@, studentId)])

\* showEditStudentOverlay(student): form.onsubmit.  `student` is the caller's
\* object; `data` is parsed afresh inside the function, so the assignments to
\* student.name, student.grade and student.houseId do not reach `data`.
showEditStudentOverlay(stored, student, newNameRaw, newHouseId) ==
    LET data == loadData(stored)
        newName == trim(newNameRaw)
    IN
    IF newName = <<>>
    THEN Rejected(stored, "name")
    ELSE IF student.houseId # newHouseId
    THEN Saved([data EXCEPT
                 !.houses = AddPoints(AddPoints(@, student.houseId, 0 - student.points),
                                      newHouseId, student.points)])
    ELSE Saved(data)

\* ------------------------------------------------------------------ rewards
Str_Pen == <<"P", "e", "n">>

\* what is typed into the Reward Name field
RewardNameInputs == { <<" ">>, Str_Pen }

\* parseInt of the Point Cost field: NaN for an empty field
CostInputs == {[nan |-> TRUE, n |-> 0], [nan |-> FALSE, n |-> 1]}

\* renderRewards: form.onsubmit
addReward(stored, nameRaw, costVal) ==
    LET data == loadData(stored)
        name == trim(nameRaw)
    IN
    IF name = <<>> \/ costVal.nan
    THEN Rejected(stored, "input")
    ELSE
      LET reward == [id |-> data.nextRewardId, name |-> name, cost |-> costVal.n] IN
      Saved([data EXCEPT !.nextRewardId = @ + 1, !.rewards = Append(@, reward)])

\* ------------------------------------------------------------------ file read
\* no FileReader in flight
NoRead == [busy |-> FALSE, name |-> <<>>, data |-> initData, live |-> FALSE, steps |-> 0]

\* renderManageHouses: form.onsubmit with a logo file chosen: the checks run
\* now, createHouse runs when the read completes
addHouseWithLogo(stored, nameRaw) ==
    LET data == loadData(stored)
        name == trim(nameRaw)
    IN
    IF name = <<>>
    THEN Rejected(stored, "name")
    ELSE IF \E i \in DOMAIN data.houses :
              toLowerCase(data.houses[i].name) = toLowerCase(name)
    THEN Rejected(stored, "duplicate")
    ELSE [doc |-> stored, wrote |-> FALSE, ok |-> TRUE, why |-> "reading"]

\* createHouse(logoData) called by reader.onload: `data` and `name` are the
\* ones of the submit handler that started the read
createHouse(data, name) ==
    LET house == [id |-> data.nextHouseId, name |-> name, points |-> 0] IN
    Saved([data EXCEPT !.nextHouseId = @ + 1, !.houses = Append(@, house)])

\* ------------------------------------------------------------------ teachers
\* JavaScript values a grade can hold: undefined, null, a number, a string
Undefined == [type |-> "undefined", num |-> 0, str |-> <<>>]
JsNull == [type |-> "null", num |-> 0, str |-> <<>>]
Num(n) == [type |-> "number", num |-> n, str |-> <<>>]
Str(s) == [type |-> "string", num |-> 0, str |-> s]

\* !g
falsy(v) ==
    \/ v.type \in {"undefined", "null"}
    \/ v.type = "number" /\ v.num = 0
    \/ v.type = "string" /\ v.str = <<>>

Digits == <<"0", "1", "2", "3", "4", "5", "6", "7", "8", "9">>

\* the decimal digits of a natural number
RECURSIVE decimal(_)
decimal(n) ==
    IF n < 10 THEN <<Digits[n + 1]>> ELSE decimal(n \div 10) \o <<Digits[(n % 10) + 1]>>

\* String(g)
String(v) ==
    CASE v.type = "undefined" -> <<"u", "n", "d", "e", "f", "i", "n", "e", "d">>
      [] v.type = "null" -> <<"n", "u", "l", "l">>
      [] v.type = "number" -> IF v.num < 0 THEN <<"-">> \o decimal(0 - v.num)
                              ELSE decimal(v.num)
      [] v.type = "string" -> v.str

\* no call of normalizeGrade recorded
NoResult == [done |-> FALSE, value |-> <<>>]
NoCall == [g |-> Undefined, award |-> NoResult, teacher |-> NoResult,
           students |-> NoResult, again |-> NoResult]

IsDigit(c) == c \in {"0", "1", "2", "3", "4", "5", "6", "7", "8", "9"}

startsWith(s, p) == Len(s) >= Len(p) /\ SubSeq(s, 1, Len(p)) = p

\* index of the leftmost match of /(k|kindergarten|\d+)/ in s, 0 for no match
matchIndex(s) ==
    LET hits == {i \in DOMAIN s : s[i] = "k" \/ IsDigit(s[i])} IN
    IF hits = {} THEN 0 ELSE CHOOSE i \in hits : \A j \in hits : i <= j

\* the digits \d+ matches from position i on
RECURSIVE digitRun(_, _)
digitRun(s, i) ==
    IF i <= Len(s) /\ IsDigit(s[i]) THEN <<s[i]>> \o digitRun(s, i + 1) ELSE <<>>

\* String(parseInt(val, 10)) of a string of digits
RECURSIVE parseIntString(_)
parseIntString(val) ==
    IF Len(val) > 1 /\ Head(val) = "0" THEN parseIntString(Tail(val)) ELSE val

\* normalizeGrade without parseInt: the matched digits as they stand
normalizeGrade_rawDigits(g) ==
    LET s == toLowerCase(trim(g))
        m == matchIndex(s)
    IN
    IF s = <<"k">> \/ startsWith(s, <<"k", "i", "n", "d">>) THEN <<"K">>
    ELSE IF m = 0 THEN <<>>
    ELSE IF s[m] = "k" THEN <<"K">>
    ELSE digitRun(s, m)

\* normalizeGrade from `const s = String(g).trim().toLowerCase()` on, g being
\* String(g) already; the three routines have the same statements there
normalizeGrade(g) ==
    LET s == toLowerCase(trim(g))
        m == matchIndex(s)
    IN
    IF s = <<"k">> \/ startsWith(s, <<"k", "i", "n", "d">>) THEN <<"K">>
    ELSE IF m = 0 THEN <<>>
    ELSE IF s[m] = "k" THEN <<"K">>
    ELSE parseIntString(digitRun(s, m))

\* normalizeGrade of renderAwardPoints: `if (!g) return ''` first
normalizeGrade_award(v) ==
    IF falsy(v) THEN <<>> ELSE normalizeGrade(String(v))

\* normalizeGrade of the teacher branch of renderAwardPoints:
\* `if (g === undefined || g === null) return ''` first
normalizeGrade_teacher(v) ==
    IF v.type \in {"undefined", "null"} THEN <<>> ELSE normalizeGrade(String(v))

\* normalizeGrade of renderManageStudents: `if (!g) return ''` first
normalizeGrade_students(v) ==
    IF falsy(v) THEN <<>> ELSE normalizeGrade(String(v))

\* ids of data.students.filter(stu => test(normalizeGrade(stu.grade))), in order
RECURSIVE gradeOptions(_, _)
gradeOptions(students, grades) ==
    IF students = <<>> THEN <<>>
    ELSE (IF normalizeGrade(Head(students).grade) \in grades
          THEN <<Head(students).id>> ELSE <<>>)
         \o gradeOptions(Tail(students), grades)

\* renderAwardPoints, admin branch: one select listing every student
awardOptions_admin(data, currentUser) ==
    << [i \in DOMAIN data.students |-> data.students[i].id] >>

\* renderAwardPoints, teacher branch: the option values of each select built
\* into #studentSelects (the placeholder option "" apart)
awardOptions(data, currentUser) ==
    LET access == [i \in DOMAIN currentUser.gradeAccess |->
                       normalizeGrade(currentUser.gradeAccess[i])]
    IN
    IF Len(access) > 1
    THEN [i \in DOMAIN access |-> gradeOptions(data.students, {access[i]})]
    ELSE << gradeOptions(data.students, {access[i] : i \in DOMAIN access}) >>

\* what can be selected in selects with these options: "" (Null) or an option
Selections(options) ==
    {c \in [DOMAIN options -> {Null} \cup StudentIds] :
        \A i \in DOMAIN options :
            c[i] = Null \/ \E j \in DOMAIN options[i] : options[i][j] = c[i]}

\* for (const s of selects) { if (s.value) { studentId = parseInt(s.value); break; } }
selectedStudentId(values) ==
    LET chosen == {i \in DOMAIN values : values[i] # Null} IN
    IF chosen = {} THEN Null
    ELSE values[CHOOSE i \in chosen : \A j \in chosen : i <= j]

\* ------------------------------------------------------------------ users
Str_t1 == <<"t", "1">>
Str_t2 == <<"t", "2">>

\* what is typed into the Username field
UsernameInputs == { <<" ">>, <<" ", "A", "d", "m", "i", "n">>, <<"T", "1">>, <<"t", "3">> }

\* the checked gradeAccess boxes of the create form, in document order
GradeBoxes == { <<>>, << <<"K">> >>, << <<"2">>, <<"5">> >> }

\* form.querySelector('select[name="teacherHouse"]'): the markup of the form
\* ends the label with `</label` and no `>`, so the HTML tokenizer reads
\* `<select name="teacherHouse" required>` as attributes of that end tag and
\* the form contains no such select: the lookup yields null
teacherHouseSelect == [found |-> FALSE, value |-> Null]

\* what the lookup yields on a form that has the select: parseInt of its value
HouseSelects(data) ==
    {[found |-> TRUE, value |-> h] : h \in {Null} \cup Ids(data.houses)}

\* the create handler without the username check
createTeacher_noCheck(stored, nameRaw, usernameRaw, passwordRaw, select, grades) ==
    LET data == loadData(stored)
        name == trim(nameRaw)
        username == toLowerCase(trim(usernameRaw))
        password == trim(passwordRaw)
    IN
    IF ~select.found
    THEN Rejected(stored, "TypeError")
    ELSE IF name = <<>> \/ username = <<>> \/ password = <<>> \/ select.value = Null
    THEN Rejected(stored, "input")
    ELSE Saved([data EXCEPT !.users = Append(@,
                  [username |-> username, role |-> "teacher",
                   gradeAccess |-> Arr(grades), accessibleStudentIds |-> Arr(<<>>)])])

\* renderManageTeachers: form.onsubmit; `select` is what the lookup of the
\* teacherHouse select yields. The form has no assignStudents boxes, so
\* assignedIds is [].
createTeacher(stored, nameRaw, usernameRaw, passwordRaw, select, grades) ==
    LET data == loadData(stored)
        name == trim(nameRaw)
        username == toLowerCase(trim(usernameRaw))
        password == trim(passwordRaw)
    IN
    IF ~select.found
    THEN \* null.value at the houseIdVal line
         Rejected(stored, "TypeError")
    ELSE IF name = <<>> \/ username = <<>> \/ password = <<>> \/ select.value = Null
    THEN Rejected(stored, "input")
    ELSE IF \E i \in DOMAIN data.users : toLowerCase(data.users[i].username) = username
    THEN Rejected(stored, "duplicate")
    ELSE Saved([data EXCEPT !.users = Append(@,
                  [username |-> username, role |-> "teacher",
                   gradeAccess |-> Arr(grades), accessibleStudentIds |-> Arr(<<>>)])])

\* the sequences without repetition over a set of at most two ids
Orders(S) ==
    {<<>>} \cup {<<a>> : a \in S}
    \cup UNION {{<<a, b>> : b \in S \ {a}} : a \in S}

\* what the checkboxes of Manage Assigned modals did to the teacher objects of
\* the rendered teachers page: nothing, or the accessibleStudentIds of one
\* teacher replaced; cb.onchange pushes and filters, so every order of the
\* listed students' ids can be produced
Toggles(data) ==
    {[any |-> FALSE, username |-> <<>>, ids |-> <<>>]}
    \cup {[any |-> TRUE, username |-> data.users[i].username, ids |-> ids] :
            i \in {k \in DOMAIN data.users : data.users[k].role = "teacher"},
            ids \in Orders(Ids(data.students))}

\* the `data` of the rendered teachers page with the toggles made so far
pageData(stored, toggles) ==
    LET data == loadData(stored) IN
    IF ~toggles.any THEN data
    ELSE [data EXCEPT !.users =
            [i \in DOMAIN @ |->
                IF @[i].username = toggles.username /\ @[i].role = "teacher"
                THEN [@[i] EXCEPT !.accessibleStudentIds = Arr(toggles.ids)]
                ELSE @[i]]]

\* renderManageTeachers: btnEditPwd.onclick; newPwd is null when cancelled
editPassword(stored, toggles, cancelled) ==
    LET data == pageData(stored, toggles) IN
    IF cancelled THEN Rejected(stored, "cancelled") ELSE Saved(data)

\* renderManageTeachers: btnDel.onclick of the teacher `username`
deleteTeacher(stored, toggles, username, confirmed) ==
    LET data == pageData(stored, toggles) IN
    IF ~confirmed THEN Rejected(stored, "cancelled")
    ELSE Saved([data EXCEPT !.users =
                  SelectSeq(@, LAMBDA u : u.username # username)])

\* openAssignStudentsModal(teacher), the boxes toggled until the checked ids
\* are `checked`, then btnSave.onclick: the toggles change `teacher`, an object
\* of the teachers page, and Save stores the `data` the modal loaded itself;
\* the page is then rendered from the stored document
assignStudents(stored, username, checked) ==
    LET data == loadData(stored)
        teacherPage == pageData(stored, [any |-> TRUE, username |-> username, ids |-> checked])
    IN  [doc |-> data, wrote |-> TRUE, ok |-> TRUE, why |-> "saved", page |-> teacherPage]

\* ------------------------------------------------------------------ wheel
maxAttempts == 20

Str_Curie == <<"C", "u", "r", "i", "e">>
Str_Hippocretes == <<"H", "i", "p", "p", "o", "c", "r", "e", "t", "e", "s">>
Str_Newton == <<"N", "e", "w", "t", "o", "n">>

nameMapping == <<Str_Darwin, Str_Curie, Str_Hippocretes, Str_Newton>>

segSizeLocal == 360 \div 4

\* segmentIndex reducing the angle by a wrong modulus
segmentIndex_mod400(angle) == ((360 - (angle % 400)) % 360) \div segSizeLocal

\* normalized = (360 - (angle % 360)) % 360; index = floor(normalized / segSizeLocal)
segmentIndex(angle) == ((360 - (angle % 360)) % 360) \div segSizeLocal

\* data.houses.find(h => h.name.toLowerCase() === name.toLowerCase()): id or Null
findHouseByName(data, name) ==
    LET hits == {i \in DOMAIN data.houses :
                    toLowerCase(data.houses[i].name) = toLowerCase(name)}
    IN  IF hits = {} THEN Null
        ELSE data.houses[CHOOSE i \in hits : \A j \in hits : i <= j].id

getLimit(data, hid) == data.houseLimits[hid]

getCount(data, hid) ==
    Cardinality({i \in DOMAIN data.students : data.students[i].houseId = hid})

isEligible(data, hid) ==
    LET lim == getLimit(data, hid) IN
    IF lim = NoLimit THEN TRUE ELSE getCount(data, hid) < lim

\* the loop without the eligibility test
RECURSIVE respin_noStop(_, _, _, _, _)
respin_noStop(data, selectedHouse, baseAngle, attempts, redraws) ==
    IF selectedHouse # Null /\ attempts < maxAttempts
    THEN LET d == redraws[attempts + 1]
             delta == d.spins * 360 + d.randAngle
             base2 == baseAngle + delta
             index2 == segmentIndex(base2)
             name2 == nameMapping[(index2 % 4) + 1]
             house2 == findHouseByName(data, name2)
         IN  respin_noStop(data, IF house2 # Null THEN house2 ELSE selectedHouse,
                    base2, attempts + 1, redraws)
    ELSE [selectedHouse |-> selectedHouse, baseAngle |-> baseAngle, attempts |-> attempts]

\* the while loop of the transitionend handler; redraws[k] is the k-th redraw
RECURSIVE respin(_, _, _, _, _)
respin(data, selectedHouse, baseAngle, attempts, redraws) ==
    IF selectedHouse # Null /\ ~isEligible(data, selectedHouse) /\ attempts < maxAttempts
    THEN LET d == redraws[attempts + 1]
             delta == d.spins * 360 + d.randAngle
             base2 == baseAngle + delta
             index2 == segmentIndex(base2)
             name2 == nameMapping[(index2 % 4) + 1]
             house2 == findHouseByName(data, name2)
         IN  respin(data, IF house2 # Null THEN house2 ELSE selectedHouse,
                    base2, attempts + 1, redraws)
    ELSE [selectedHouse |-> selectedHouse, baseAngle |-> baseAngle, attempts |-> attempts]

\* sortingWheel whose final check lets a house at its limit pass
sortingWheel_finalGt(stored, studentId, spins, randAngle, redraws) ==
    LET data == loadData(stored)
        finalAngle == spins * 360 + randAngle
        index == segmentIndex(finalAngle)
        desiredName == nameMapping[(index % Len(nameMapping)) + 1]
        byName == findHouseByName(data, desiredName)
        first == IF byName # Null THEN byName
                 ELSE IF Len(data.houses) > 0
                      THEN data.houses[(index % Len(data.houses)) + 1].id
                      ELSE Null
        w == respin(data, first, finalAngle, 0, redraws)
        si == FindIndex(data.students, studentId)
        out(r) == [doc |-> r.doc, wrote |-> r.wrote, ok |-> r.ok, why |-> r.why,
                   selectedHouse |-> w.selectedHouse, baseAngle |-> w.baseAngle,
                   attempts |-> w.attempts, firstHouse |-> first]
    IN
    IF w.selectedHouse # Null /\ si # 0
    THEN IF /\ getLimit(data, w.selectedHouse) # NoLimit
            /\ getCount(data, w.selectedHouse) > getLimit(data, w.selectedHouse)
         THEN out(Rejected(stored, "full"))
         ELSE out(Saved([data EXCEPT !.students[si].houseId = w.selectedHouse]))
    ELSE out(Rejected(stored, "none"))

\* sortingWheel without the final capacity check
sortingWheel_noFinalCheck(stored, studentId, spins, randAngle, redraws) ==
    LET data == loadData(stored)
        finalAngle == spins * 360 + randAngle
        index == segmentIndex(finalAngle)
        desiredName == nameMapping[(index % Len(nameMapping)) + 1]
        byName == findHouseByName(data, desiredName)
        first == IF byName # Null THEN byName
                 ELSE IF Len(data.houses) > 0
                      THEN data.houses[(index % Len(data.houses)) + 1].id
                      ELSE Null
        w == respin(data, first, finalAngle, 0, redraws)
        si == FindIndex(data.students, studentId)
        out(r) == [doc |-> r.doc, wrote |-> r.wrote, ok |-> r.ok, why |-> r.why,
                   selectedHouse |-> w.selectedHouse, baseAngle |-> w.baseAngle,
                   attempts |-> w.attempts, firstHouse |-> first]
    IN
    IF w.selectedHouse # Null /\ si # 0
    THEN out(Saved([data EXCEPT !.students[si].houseId = w.selectedHouse]))
    ELSE out(Rejected(stored, "none"))

\* renderSortingWheel: btn.onclick and the transitionend handler it registers
sortingWheel(stored, studentId, spins, randAngle, redraws) ==
    LET data == loadData(stored)
        finalAngle == spins * 360 + randAngle
        index == segmentIndex(finalAngle)
        desiredName == nameMapping[(index % Len(nameMapping)) + 1]
        byName == findHouseByName(data, desiredName)
        first == IF byName # Null THEN byName
                 ELSE IF Len(data.houses) > 0
                      THEN data.houses[(index % Len(data.houses)) + 1].id
                      ELSE Null
        w == respin(data, first, finalAngle, 0, redraws)
        si == FindIndex(data.students, studentId)
        out(r) == [doc |-> r.doc, wrote |-> r.wrote, ok |-> r.ok, why |-> r.why,
                   selectedHouse |-> w.selectedHouse, baseAngle |-> w.baseAngle,
                   attempts |-> w.attempts, firstHouse |-> first]
    IN
    IF w.selectedHouse # Null /\ si # 0
    THEN IF /\ getLimit(data, w.selectedHouse) # NoLimit
            /\ getCount(data, w.selectedHouse) >= getLimit(data, w.selectedHouse)
         THEN out(Rejected(stored, "full"))
         ELSE out(Saved([data EXCEPT !.students[si].houseId = w.selectedHouse]))
    ELSE out(Rejected(stored, "none"))

\* Math.floor(Math.random() * 4) + 4
FirstSpins == {4, 7}

\* sampled values of Math.floor(Math.random() * 360)
Angles == {0, 90, 270}

\* the random source of the redraws: the same draw each time
RedrawStreams == {[k \in 1..maxAttempts |-> [spins |-> 1, randAngle |-> a]] : a \in {90}}

\* angles at and next to the segment borders
BorderAngles == {0, 1, 89, 90, 180, 270, 359}

\* random sources that stay on the segment for the first j redraws and then
\* advance by a each time; j = maxAttempts never leaves the segment
StuckStreams ==
    {[k \in 1..maxAttempts |->
        [spins |-> 1 + (k % 4), randAngle |-> IF k <= j THEN 0 ELSE a]] :
        j \in {0, 3, maxAttempts - 1, maxAttempts}, a \in {90, 180}}

\* what is typed into a Limit field: empty, or an integer
LimitInputs ==
    {[empty |-> TRUE, n |-> 0]} \cup {[empty |-> FALSE, n |-> k] : k \in (0 - 1)..MaxLimit}

\* renderSortingWheel: inp.onchange of the Limit field of a listed house
setHouseLimit(stored, hid, v) ==
    LET data == loadData(stored) IN
    Saved([data EXCEPT !.houseLimits[hid] =
              IF v.empty THEN NoLimit ELSE IF v.n > 0 THEN v.n ELSE 0])

\* gradeDefs: the keys of the grade sections of the students page
gradeKeys == { <<"K">>, <<"1">>, <<"2">>, <<"3">>, <<"4">>, <<"5">> }

\* renderManageStudents builds a row, with its Delete button, only for the
\* students of a grade section (its normalizeGrade is, on strings, the one of
\* the award form)
isListed(student) == normalizeGrade(student.grade) \in gradeKeys

\* ------------------------------------------------------------------ actions
Init ==
    /\ doc = initData
    /\ read = NoRead
    /\ call = NoCall

\* a handler of another page than the one that started the read: showing that
\* page replaces the page whose `data` the pending completion closes over
OtherPage ==
    [read EXCEPT !.live = FALSE, !.steps = IF read.busy THEN @ + 1 ELSE @]

\* a read completes within a few handlers
CanStep == read.busy => read.steps < MaxReadSteps

\* a handler of the houses page with result r: while the page that started the
\* read is still shown, the handler mutates the very `data` object the pending
\* completion closes over, and the page is rendered anew once it has saved
SamePage(r) ==
    IF read.busy /\ read.live /\ r.wrote
    THEN [read EXCEPT !.data = r.doc, !.live = FALSE, !.steps = @ + 1]
    ELSE [read EXCEPT !.steps = IF read.busy THEN @ + 1 ELSE @]

\* the submissions the action makes: every accepted combination, and one of
\* each kind of refused one
Submissions ==
    {[sid |-> s, amt |-> a, note |-> <<" ">> \o Str_ok \o <<" ">>, mode |-> m] :
        s \in StudentIds, a \in {x \in AmountInputs : ~x.nan}, m \in Modes}
    \cup {[sid |-> Null, amt |-> [nan |-> FALSE, n |-> 1], note |-> Str_ok, mode |-> "add"],
          [sid |-> 1, amt |-> [nan |-> TRUE, n |-> 0], note |-> Str_ok, mode |-> "add"],
          [sid |-> 1, amt |-> [nan |-> FALSE, n |-> 1], note |-> <<" ">>, mode |-> "take"]}

SubmitAward ==
    /\ CanStep
    /\ \E in \in Submissions :
       LET r == submitAwardForm(doc, in.sid, in.amt, in.note, in.mode) IN
       /\ r.ok => doc.nextTransactionId <= MaxTxnId
       /\ doc' = r.doc
       /\ UNCHANGED call
       /\ read' = OtherPage

DeleteTxn ==
    /\ CanStep
    /\ \E tid \in TxnIds :
       /\ doc' = deleteTransaction(doc, tid).doc
       /\ UNCHANGED call
       /\ read' = OtherPage

AddHouse ==
    /\ CanStep
    /\ \E name \in HouseNameInputs :
       LET r == addHouse(doc, name) IN
       /\ r.ok => doc.nextHouseId <= MaxHouseId
       /\ doc' = r.doc
       /\ UNCHANGED call
       /\ read' = SamePage(r)

DeleteHouse ==
    /\ CanStep
    /\ \E h \in Ids(doc.houses) :
       LET r == deleteHouse(doc, h) IN
       /\ doc' = r.doc
       /\ UNCHANGED call
       /\ read' = SamePage(r)

\* Grade Level "5"
AddStudent ==
    /\ CanStep
    /\ \E name \in StudentNameInputs, h \in {Null} \cup Ids(doc.houses) :
       LET r == addStudent(doc, name, <<"5">>, h) IN
       /\ r.ok => doc.nextStudentId <= MaxStudentId
       /\ doc' = r.doc
       /\ UNCHANGED call
       /\ read' = OtherPage

DeleteStudent ==
    /\ CanStep
    /\ \E i \in DOMAIN doc.students :
       /\ isListed(doc.students[i])
       /\ doc' = deleteStudent(doc, doc.students[i].id).doc
       /\ UNCHANGED call
       /\ read' = OtherPage

\* the overlay is opened on a listed student; its house select lists data.houses
EditStudent ==
    /\ CanStep
    /\ \E i \in DOMAIN doc.students, name \in StudentNameInputs,
       h \in {Null} \cup Ids(doc.houses) :
       LET r == showEditStudentOverlay(doc, doc.students[i], name, h) IN
       /\ \A j \in DOMAIN r.doc.houses :
             /\ r.doc.houses[j].points <= MaxHousePoints
             /\ r.doc.houses[j].points >= 0 - MaxHousePoints
       /\ doc' = r.doc
       /\ UNCHANGED call
       /\ read' = OtherPage

\* the wheel page is rendered only with at least one house and one student
SpinWheel ==
    /\ CanStep
    /\ doc.houses # <<>>
    /\ \E s \in Ids(doc.students), spins \in FirstSpins, a \in Angles, redraws \in RedrawStreams :
          doc' = sortingWheel(doc, s, spins, a, redraws).doc
    /\ UNCHANGED call
    /\ read' = OtherPage

\* the handlers the rendered pages of script.js can invoke
Next ==
    \/ SubmitAward
    \/ DeleteTxn
    \/ AddHouse
    \/ DeleteHouse
    \/ AddStudent
    \/ DeleteStudent
    \/ SpinWheel

Spec == Init /\ [][Next]_vars

\* the same, with the edit-student overlay (which script.js defines but never opens)
NextOverlay ==
    \/ SubmitAward
    \/ DeleteTxn
    \/ AddHouse
    \/ DeleteHouse
    \/ AddStudent
    \/ DeleteStudent
    \/ SpinWheel
    \/ EditStudent

SpecOverlay == Init /\ [][NextOverlay]_vars

\* ---- the wheel page with capacities
\* the Limit fields are built for the listed houses on the same conditions
SetHouseLimit ==
    /\ CanStep
    /\ doc.houses # <<>> /\ doc.students # <<>>
    /\ \E h \in Ids(doc.houses), v \in LimitInputs :
          doc' = setHouseLimit(doc, h, v).doc
    /\ UNCHANGED call
    /\ read' = OtherPage

\* a spin whose redraws come from the streams that can exhaust the budget
SpinWheelStuck ==
    /\ CanStep
    /\ doc.houses # <<>>
    /\ \E s \in Ids(doc.students), spins \in FirstSpins, a \in Angles, redraws \in StuckStreams :
          doc' = sortingWheel(doc, s, spins, a, redraws).doc
    /\ UNCHANGED call
    /\ read' = OtherPage

NextWheel ==
    \/ AddHouse
    \/ AddStudent
    \/ DeleteStudent
    \/ SetHouseLimit
    \/ SpinWheel
    \/ SpinWheelStuck

SpecWheel == Init /\ [][NextWheel]_vars

\* ---- the award form of a teacher
Str_2nd == <<"2", "n", "d", " ", "G", "r", "a", "d", "e">>

\* what is typed into the Grade Level field
GradeInputs == { <<>>, Str_2nd, <<" ", "5">>, <<"K">> }

\* session users of role teacher: gradeAccess and accessibleStudentIds
Teachers ==
    { [username |-> "t0", gradeAccess |-> <<>>, accessibleStudentIds |-> {}],
      [username |-> "t1", gradeAccess |-> <<<<"2">>>>, accessibleStudentIds |-> {2}],
      [username |-> "t2", gradeAccess |-> <<<<"K">>, <<"2">>>>, accessibleStudentIds |-> {}],
      [username |-> "t3", gradeAccess |-> <<>>, accessibleStudentIds |-> {1}] }

AddGradedStudent ==
    /\ CanStep
    /\ \E g \in GradeInputs, h \in {Null} \cup Ids(doc.houses) :
       LET r == addStudent(doc, Str_Al, g, h) IN
       /\ r.ok => doc.nextStudentId <= MaxStudentId
       /\ doc' = r.doc
       /\ UNCHANGED call
       /\ read' = OtherPage

\* renderAwardPoints for a teacher, a selection in its selects, Add or Take
TeacherAward ==
    /\ CanStep
    /\ \E currentUser \in Teachers :
         \E values \in Selections(awardOptions(doc, currentUser)) :
           \E a \in {x \in AmountInputs : ~x.nan}, m \in Modes :
             LET r == submitAwardForm(doc, selectedStudentId(values), a, Str_ok, m) IN
             /\ r.ok => doc.nextTransactionId <= MaxTxnId
             /\ doc' = r.doc
             /\ UNCHANGED call
             /\ read' = OtherPage

NextTeacher ==
    \/ AddHouse
    \/ AddGradedStudent
    \/ DeleteStudent
    \/ TeacherAward
    \/ DeleteTxn

SpecTeacher == Init /\ [][NextTeacher]_vars

\* ---- the houses page with a logo read in flight, and the rewards page
\* form.onsubmit of the houses page with a logo file chosen; one read at a time
StartLogoRead ==
    /\ ~read.busy
    /\ \E name \in HouseNameInputs :
          LET r == addHouseWithLogo(doc, name) IN
          /\ doc' = doc
          /\ UNCHANGED call
          /\ read' = IF r.ok
                     THEN [busy |-> TRUE, name |-> trim(name), data |-> loadData(doc),
                           live |-> TRUE, steps |-> 0]
                     ELSE read

\* reader.onload of that read
LogoReadDone ==
    /\ read.busy
    /\ read.data.nextHouseId <= MaxHouseId
    /\ doc' = createHouse(read.data, read.name).doc
    /\ UNCHANGED call
    /\ read' = NoRead

\* showSection: a tab is clicked and its page rendered from the stored document
ShowSection ==
    /\ CanStep
    /\ doc' = showSection(doc).doc
    /\ UNCHANGED call
    /\ read' = OtherPage

AddReward ==
    /\ CanStep
    /\ \E name \in RewardNameInputs, cost \in CostInputs :
       LET r == addReward(doc, name, cost) IN
       /\ r.ok => doc.nextRewardId <= MaxRewardId
       /\ doc' = r.doc
       /\ UNCHANGED call
       /\ read' = OtherPage

\* a student of grade "5" added with no house
EnrolStudent ==
    /\ CanStep
    /\ LET r == addStudent(doc, Str_Al, <<"5">>, Null) IN
       /\ r.ok => doc.nextStudentId <= MaxStudentId
       /\ doc' = r.doc
       /\ UNCHANGED call
       /\ read' = OtherPage

\* one point added to a listed student
AwardPoint ==
    /\ CanStep
    /\ \E s \in Ids(doc.students) :
          LET r == submitAwardForm(doc, s, [nan |-> FALSE, n |-> 1], Str_ok, "add") IN
          /\ r.ok => doc.nextTransactionId <= MaxTxnId
          /\ doc' = r.doc
          /\ UNCHANGED call
          /\ read' = OtherPage

NextIds ==
    \/ AddHouse
    \/ DeleteHouse
    \/ StartLogoRead
    \/ LogoReadDone
    \/ ShowSection
    \/ EnrolStudent
    \/ DeleteStudent
    \/ AwardPoint
    \/ DeleteTxn
    \/ AddReward

SpecIds == Init /\ [][NextIds]_vars

\* ---- the houses page: add, rename, delete, and a logo read in flight
RenameHouse ==
    /\ CanStep
    /\ \E h \in Ids(doc.houses), newName \in RenameInputs :
       LET r == renameHouse(doc, h, newName) IN
       /\ doc' = r.doc
       /\ UNCHANGED call
       /\ read' = SamePage(r)

NextHouses ==
    \/ AddHouse
    \/ RenameHouse
    \/ DeleteHouse
    \/ StartLogoRead
    \/ LogoReadDone
    \/ ShowSection

SpecHouses == Init /\ [][NextHouses]_vars

\* ---- the teachers page
\* users arrays of documents persisted earlier (initData leaves an existing
\* document as it is): the built-in admin alone, with a teacher holding both
\* fields, and with teachers written before accessibleStudentIds or both
\* fields existed
PersistedUsers ==
    { <<adminUser>>,
      <<adminUser,
        [username |-> Str_t1, role |-> "teacher",
         gradeAccess |-> Arr(<< <<"2">> >>), accessibleStudentIds |-> Arr(<<>>)]>>,
      <<adminUser,
        [username |-> Str_t1, role |-> "teacher",
         gradeAccess |-> NotArray, accessibleStudentIds |-> NotArray],
        [username |-> Str_t2, role |-> "teacher",
         gradeAccess |-> Arr(<< <<"K">> >>), accessibleStudentIds |-> NotArray]>> }

InitUsers ==
    /\ doc \in {[initData EXCEPT !.users = us] : us \in PersistedUsers}
    /\ read = NoRead
    /\ call = NoCall

teacherNames(data) ==
    {data.users[i].username : i \in {k \in DOMAIN data.users : data.users[k].role = "teacher"}}

CreateTeacher ==
    /\ CanStep
    /\ \E name \in StudentNameInputs, username \in UsernameInputs, grades \in GradeBoxes :
          doc' = createTeacher(doc, name, username, Str_ok, teacherHouseSelect, grades).doc
    /\ UNCHANGED call
    /\ read' = OtherPage

EditPassword ==
    /\ CanStep
    /\ teacherNames(doc) # {}
    /\ \E toggles \in Toggles(loadData(doc)), cancelled \in BOOLEAN :
          doc' = editPassword(doc, toggles, cancelled).doc
    /\ UNCHANGED call
    /\ read' = OtherPage

DeleteTeacher ==
    /\ CanStep
    /\ \E username \in teacherNames(doc), toggles \in Toggles(loadData(doc)),
          confirmed \in BOOLEAN :
          doc' = deleteTeacher(doc, toggles, username, confirmed).doc
    /\ UNCHANGED call
    /\ read' = OtherPage

SaveAssigned ==
    /\ CanStep
    /\ \E username \in teacherNames(doc), checked \in Orders(Ids(doc.students)) :
          doc' = assignStudents(doc, username, checked).doc
    /\ UNCHANGED call
    /\ read' = OtherPage

NextUsers ==
    \/ CreateTeacher
    \/ EditPassword
    \/ DeleteTeacher
    \/ SaveAssigned
    \/ EnrolStudent
    \/ AddHouse
    \/ ShowSection

SpecUsers == InitUsers /\ [][NextUsers]_vars

\* ---- the normalizeGrade routines
\* grade labels: the canonical ones, free text, and labels out of range
GradeLabels ==
    { <<>>,
      <<"K">>,
      <<"k", "i", "n", "d", "e", "r", "g", "a", "r", "t", "e", "n">>,
      <<"K", "i", "n", "d", "e", "r", "g", "a", "r", "t", "e", "n">>,
      <<"5">>,
      <<"5", "t", "h", " ", "G", "r", "a", "d", "e">>,
      <<" ", "3", " ">>,
      <<"0", "5">>,
      <<"0">>,
      <<"6">>,
      <<"1", "2">>,
      <<"6", "t", "h", " ", "G", "r", "a", "d", "e">>,
      <<"G", "r", "a", "d", "e", " ", "4">>,
      <<"p", "r", "e", "-", "k">>,
      <<"a", "b", "c">>,
      <<"K", "I", "N", "D", "E", "R">>,
      <<"k", "5">>,
      <<"0", "0", "7">> }

GradeChars == {" ", "k", "0", "6"}

\* the values a grade is normalized from: a missing field, null, numbers,
\* the labels, and every string of up to two of the characters
GradeValues ==
    {Undefined, JsNull} \cup {Num(n) : n \in {0, 5, 12, 0 - 3}}
    \cup {Str(l) : l \in GradeLabels}
    \cup {Str(<<a>>) : a \in GradeChars}
    \cup {Str(<<a, b>>) : a \in GradeChars, b \in GradeChars}

InitGrades ==
    /\ doc = initData
    /\ read = NoRead
    /\ call \in {[NoCall EXCEPT !.g = v] : v \in GradeValues}

Returned(value) == [done |-> TRUE, value |-> value]

NormalizeAward ==
    /\ ~call.award.done
    /\ call' = [call EXCEPT !.award = Returned(normalizeGrade_award(call.g))]
    /\ UNCHANGED <<doc, read>>

NormalizeTeacher ==
    /\ ~call.teacher.done
    /\ call' = [call EXCEPT !.teacher = Returned(normalizeGrade_teacher(call.g))]
    /\ UNCHANGED <<doc, read>>

NormalizeStudents ==
    /\ ~call.students.done
    /\ call' = [call EXCEPT !.students = Returned(normalizeGrade_students(call.g))]
    /\ UNCHANGED <<doc, read>>

\* the result normalized once more
NormalizeAgain ==
    /\ call.award.done /\ ~call.again.done
    /\ call' = [call EXCEPT !.again = Returned(normalizeGrade_award(Str(call.award.value)))]
    /\ UNCHANGED <<doc, read>>

NextGrades ==
    \/ NormalizeAward
    \/ NormalizeTeacher
    \/ NormalizeStudents
    \/ NormalizeAgain

SpecGrades == InitGrades /\ [][NextGrades]_vars

\* ---- the handlers of Next on a document persisted earlier, with one student
PersistedLedgers ==
    {[initData EXCEPT
        !.users = us,
        !.students = <<[id |-> 1, name |-> Str_Al, grade |-> <<"5">>,
                        houseId |-> Null, points |-> 0]>>,
        !.nextStudentId = 2] : us \in PersistedUsers}

InitLedger ==
    /\ doc \in PersistedLedgers
    /\ read = NoRead
    /\ call = NoCall

SpecLedger == InitLedger /\ [][Next]_vars

\* ------------------------------------------------------------------ claims
StudentAt(data, id) == data.students[FindIndex(data.students, id)]

\* sum of the points of the students currently assigned to house hid
RECURSIVE SumStudentPoints(_, _)
SumStudentPoints(students, hid) ==
    IF students = <<>> THEN 0
    ELSE (IF Head(students).houseId = hid THEN Head(students).points ELSE 0)
         + SumStudentPoints(Tail(students), hid)

\* sum of the amounts of the ledger entries of student sid
RECURSIVE SumLedger(_, _)
SumLedger(transactions, sid) ==
    IF transactions = <<>> THEN 0
    ELSE (IF Head(transactions).studentId = sid THEN Head(transactions).amount ELSE 0)
         + SumLedger(Tail(transactions), sid)

IsBlank(note) == \A i \in DOMAIN note : note[i] \in {" ", "\t", "\n"}

Abs(n) == IF n < 0 THEN 0 - n ELSE n

\* the signed amount a submission in the given mode stands for
SignedAmount(amt, mode) == IF mode = "take" THEN 0 - Abs(amt.n) ELSE amt.n

ValidAmounts == {a \in AmountInputs : ~a.nan}
NonBlankNotes == {n \in Notes : ~IsBlank(n)}
BlankNotes == {n \in Notes : IsBlank(n)}

\* C1: every house's points equals the sum of the points of the students
\* whose houseId is currently that house, in every reachable state.
C1_HouseBalance ==
    \A i \in DOMAIN doc.houses :
        doc.houses[i].points = SumStudentPoints(doc.students, doc.houses[i].id)

\* C2: every existing student's points equals the sum of the amounts of all
\* ledger entries whose studentId is that student, in every reachable state.
C2_StudentBalance ==
    \A i \in DOMAIN doc.students :
        doc.students[i].points = SumLedger(doc.transactions, doc.students[i].id)

\* a student with points whose house differs from the one captured in one of
\* their entries, after a transaction deletion and a student deletion
C2_Witness ==
    /\ Len(doc.transactions) < doc.nextTransactionId - 1
    /\ Len(doc.students) < doc.nextStudentId - 1
    /\ \E i \in DOMAIN doc.students, j \in DOMAIN doc.transactions :
          /\ doc.students[i].points # 0
          /\ doc.transactions[j].studentId = doc.students[i].id
          /\ doc.transactions[j].houseId # doc.students[i].houseId
          /\ doc.students[i].houseId # Null

\* C3: a successful submission (existing student, nonzero amount, non-empty
\* note) immediately followed by deleteTransaction on the created entry's id
\* restores the student's points and the points of the student's house and
\* leaves the ledger without that entry.
C3_ReversalIsInverse ==
    \A i \in DOMAIN doc.students :
    \A amt \in {a \in ValidAmounts : a.n # 0}, note \in NonBlankNotes, mode \in Modes :
        LET student == doc.students[i]
            posted == submitAwardForm(doc, student.id, amt, note, mode)
            created == posted.doc.transactions[Len(posted.doc.transactions)]
            reversed == deleteTransaction(posted.doc, created.id)
        IN  /\ posted.ok
            /\ Len(posted.doc.transactions) = Len(doc.transactions) + 1
            /\ reversed.ok
            /\ StudentAt(reversed.doc, student.id).points = student.points
            /\ PointsOf(reversed.doc.houses, student.houseId)
                  = PointsOf(doc.houses, student.houseId)
            /\ created.id \notin Ids(reversed.doc.transactions)
            /\ reversed.doc.transactions = doc.transactions

\* a student in a house, with points, for whom award-then-delete runs
C3_Witness ==
    \E i \in DOMAIN doc.students :
        LET student == doc.students[i]
            posted == submitAwardForm(doc, student.id, [nan |-> FALSE, n |-> 1], Str_ok, "take")
            reversed == deleteTransaction(posted.doc, doc.nextTransactionId)
        IN  /\ student.houseId \in Ids(doc.houses)
            /\ student.points # 0
            /\ posted.ok /\ posted.doc # doc
            /\ reversed.ok

\* the effect C4 states for a submission to student s in document data
C4_Effect(data, student, amt, note, mode) ==
    LET a == SignedAmount(amt, mode)
        r == submitAwardForm(data, student.id, amt, note, mode)
        entry == [ id |-> data.nextTransactionId, studentId |-> student.id,
                   houseId |-> student.houseId, amount |-> a, note |-> trim(note) ]
    IN  /\ r.ok
        /\ StudentAt(r.doc, student.id).points = student.points + a
        /\ student.houseId # Null =>
              PointsOf(r.doc.houses, student.houseId)
                 = PointsOf(data.houses, student.houseId) + a
        /\ r.doc.transactions = Append(data.transactions, entry)

\* C4: a successful submission for student s with amount a adds a to
\* s.points and to the points of s's current house, and appends exactly one
\* entry (id = previous nextTransactionId, studentId s, amount a, houseId s's
\* house at post time or null); the stored houseId never changes afterwards.
C4_PostEffect ==
    /\ [](\A i \in DOMAIN doc.students :
          \A amt \in ValidAmounts, note \in NonBlankNotes, mode \in Modes :
             C4_Effect(doc, doc.students[i], amt, note, mode))
    /\ [][\A i \in DOMAIN doc.transactions, j \in DOMAIN doc'.transactions :
             doc.transactions[i].id = doc'.transactions[j].id
                => doc'.transactions[j] = doc.transactions[i]]_vars

\* an entry whose captured house is no longer the house of its student
C4_Witness ==
    \E i \in DOMAIN doc.students, j \in DOMAIN doc.transactions :
        /\ doc.transactions[j].studentId = doc.students[i].id
        /\ doc.transactions[j].houseId \in Ids(doc.houses)
        /\ doc.students[i].houseId \in Ids(doc.houses)
        /\ doc.transactions[j].houseId # doc.students[i].houseId
        /\ doc.transactions[j].amount # 0
        /\ C4_Effect(doc, doc.students[i], [nan |-> FALSE, n |-> 1], Str_ok, "add")

\* C5: a submission with amount zero (valid student, non-empty note) is
\* rejected with nothing changed, and no ledger entry ever has amount 0.
C5_ZeroAmountRejected ==
    /\ \A i \in DOMAIN doc.students : \A note \in NonBlankNotes, mode \in Modes :
          LET r == submitAwardForm(doc, doc.students[i].id, [nan |-> FALSE, n |-> 0],
                                   note, mode)
          IN  ~r.wrote /\ r.doc = doc
    /\ \A j \in DOMAIN doc.transactions : doc.transactions[j].amount # 0

\* C6: a submission whose note is empty or only white space is rejected with
\* the stored document unchanged, and every ledger entry has a non-empty
\* trimmed note.
C6_BlankNoteRejected ==
    /\ \A sid \in {Null} \cup StudentIds :
       \A amt \in AmountInputs, note \in BlankNotes, mode \in Modes :
          LET r == submitAwardForm(doc, sid, amt, note, mode)
          IN  ~r.ok /\ ~r.wrote /\ r.doc = doc
    /\ \A j \in DOMAIN doc.transactions :
          /\ doc.transactions[j].note # <<>>
          /\ ~IsBlank(doc.transactions[j].note)
          /\ ~IsSpace(Head(doc.transactions[j].note))
          /\ ~IsSpace(doc.transactions[j].note[Len(doc.transactions[j].note)])

\* entries exist, and a white-space note for a valid student and amount is
\* what makes the submission fail
C6_Witness ==
    /\ doc.transactions # <<>>
    /\ \E i \in DOMAIN doc.students :
          /\ submitAwardForm(doc, doc.students[i].id, [nan |-> FALSE, n |-> 1],
                             <<"\t", " ">>, "add").why = "note"
          /\ submitAwardForm(doc, doc.students[i].id, [nan |-> FALSE, n |-> 1],
                             Str_ok, "add").ok

\* C7: deleteTransaction with an id that matches no entry returns false and
\* neither changes nor writes the document; with a matching id it returns true.
C7_DeleteMiss ==
    \A tid \in 1..(MaxTxnId + 1) :
        LET r == deleteTransaction(doc, tid) IN
        IF tid \in Ids(doc.transactions)
        THEN r.ok
        ELSE ~r.ok /\ ~r.wrote /\ r.doc = doc

\* an issued id that is gone from the ledger next to one that is still there
C7_Witness ==
    \E tid \in TxnIds, other \in TxnIds :
        /\ tid < doc.nextTransactionId
        /\ tid \notin Ids(doc.transactions)
        /\ ~deleteTransaction(doc, tid).ok
        /\ other \in Ids(doc.transactions)
        /\ deleteTransaction(doc, other).ok

\* the effect C8 states for deleting the entry at position idx
C8_Effect(data, idx) ==
    LET txn == data.transactions[idx]
        r == deleteTransaction(data, txn.id)
    IN  /\ r.ok
        /\ r.doc.transactions = SubSeq(data.transactions, 1, idx - 1)
                                   \o SubSeq(data.transactions, idx + 1, Len(data.transactions))
        /\ Len(r.doc.students) = Len(data.students)
        /\ \A i \in DOMAIN data.students :
              r.doc.students[i] =
                 [data.students[i] EXCEPT !.points =
                     IF data.students[i].id = txn.studentId THEN @ - txn.amount ELSE @]
        /\ Len(r.doc.houses) = Len(data.houses)
        /\ \A i \in DOMAIN data.houses :
              r.doc.houses[i] =
                 [data.houses[i] EXCEPT !.points =
                     IF data.houses[i].id = txn.houseId THEN @ - txn.amount ELSE @]

\* C8: deleteTransaction on an existing entry with amount a removes exactly
\* that entry, subtracts a from the referenced student if the student still
\* exists and from the house stored in the entry if that house still exists;
\* a deleted student or house is skipped and the entry is still removed.
C8_DeleteEffect ==
    \A idx \in DOMAIN doc.transactions : C8_Effect(doc, idx)

\* an entry with a nonzero amount whose student and house are both deleted,
\* next to another entry that stays
C8_Witness ==
    \E idx \in DOMAIN doc.transactions :
        /\ doc.transactions[idx].amount # 0
        /\ doc.transactions[idx].studentId \notin Ids(doc.students)
        /\ doc.transactions[idx].houseId # Null
        /\ doc.transactions[idx].houseId \notin Ids(doc.houses)
        /\ Len(doc.transactions) = 2
        /\ doc.houses # <<>> /\ doc.students # <<>>
        /\ C8_Effect(doc, idx)

\* C9: Save in the edit-student overlay with a house different from the
\* student's current one leaves a stored document in which the old house is
\* debited by the student's points, the new house is credited by them and the
\* student's houseId is the new house.
C9_OverlayReassign ==
    \A i \in DOMAIN doc.students : \A h \in {Null} \cup Ids(doc.houses) :
        LET student == doc.students[i]
            r == showEditStudentOverlay(doc, student, Str_Al, h)
        IN  h # student.houseId =>
              /\ r.wrote
              /\ student.houseId # Null =>
                    PointsOf(r.doc.houses, student.houseId)
                       = PointsOf(doc.houses, student.houseId) - student.points
              /\ h # Null =>
                    PointsOf(r.doc.houses, h) = PointsOf(doc.houses, h) + student.points
              /\ StudentAt(r.doc, student.id).houseId = h

\* C10: when the wheel assigns a student of house A holding p points to a
\* different house B, A loses p and B gains p in the step in which the
\* student's houseId becomes B (with no previous house only B is credited).
C10_WheelMovesPoints ==
    \A i \in DOMAIN doc.students :
    \A spins \in FirstSpins, a \in Angles, redraws \in RedrawStreams :
        LET student == doc.students[i]
            r == sortingWheel(doc, student.id, spins, a, redraws)
            B == r.selectedHouse
        IN  (r.ok /\ B # student.houseId) =>
              /\ StudentAt(r.doc, student.id).houseId = B
              /\ student.houseId # Null =>
                    PointsOf(r.doc.houses, student.houseId)
                       = PointsOf(doc.houses, student.houseId) - student.points
              /\ PointsOf(r.doc.houses, B) = PointsOf(doc.houses, B) + student.points

\* the random sources the wheel claims are checked on
WheelStreams == RedrawStreams \cup StuckStreams

\* a house with a configured limit that its current count has reached
IsFull(data, hid) ==
    getLimit(data, hid) # NoLimit /\ getCount(data, hid) >= getLimit(data, hid)

\* C11: the wheel never sets a student's houseId to a house that has a
\* configured limit L while the number of students assigned to it is >= L,
\* whatever the spins, redraws and limits.
C11_CapacityRespected ==
    \A i \in DOMAIN doc.students :
    \A spins \in FirstSpins, a \in Angles, redraws \in WheelStreams :
        LET student == doc.students[i]
            r == sortingWheel(doc, student.id, spins, a, redraws)
        IN  r.wrote =>
              /\ r.selectedHouse # Null
              /\ StudentAt(r.doc, student.id).houseId = r.selectedHouse
              /\ ~IsFull(doc, r.selectedHouse)

\* a spin that lands on a full house first and, after redraws, assigns the
\* student to another house, in a state where a house is full
C11_Witness ==
    \E i \in DOMAIN doc.students :
    \E spins \in FirstSpins, a \in Angles, redraws \in WheelStreams :
        LET student == doc.students[i]
            r == sortingWheel(doc, student.id, spins, a, redraws)
        IN  /\ r.firstHouse # Null /\ IsFull(doc, r.firstHouse)
            /\ getLimit(doc, r.firstHouse) > 0
            /\ r.attempts > 0
            /\ r.wrote
            /\ r.selectedHouse # r.firstHouse
            /\ StudentAt(r.doc, student.id).houseId = r.selectedHouse

\* C12: when every existing house has a limit and is at or above it, and
\* whenever the 20 redraws are used up with the selected house still
\* ineligible, the spin changes nothing: no write, the stored document (each
\* houseId, each house's points) as before.
C12_Unresolved ==
    \A i \in DOMAIN doc.students :
    \A spins \in FirstSpins, a \in Angles, redraws \in WheelStreams :
        LET r == sortingWheel(doc, doc.students[i].id, spins, a, redraws)
            allFull == \A j \in DOMAIN doc.houses : IsFull(doc, doc.houses[j].id)
            exhausted == /\ r.attempts = maxAttempts
                         /\ r.selectedHouse # Null
                         /\ ~isEligible(doc, r.selectedHouse)
        IN  (allFull \/ exhausted) => (~r.ok /\ ~r.wrote /\ r.doc = doc)

\* two houses, both full, one of them holding a student: a spin uses up its
\* redraws and is refused; and with the limit of one house cleared, a random
\* source that never leaves the full house's segment is refused as well
C12_Witness ==
    /\ Len(doc.houses) = 2
    /\ \A j \in DOMAIN doc.houses : IsFull(doc, doc.houses[j].id)
    /\ \E j \in DOMAIN doc.houses : getCount(doc, doc.houses[j].id) > 0
    /\ \E i \in DOMAIN doc.students :
       \E spins \in FirstSpins, a \in Angles, redraws \in WheelStreams :
          LET r == sortingWheel(doc, doc.students[i].id, spins, a, redraws) IN
          r.attempts = maxAttempts /\ r.why = "full"
    /\ \E i \in DOMAIN doc.students, h \in Ids(doc.houses) :
       \E spins \in FirstSpins, a \in Angles, redraws \in WheelStreams :
          LET freed == setHouseLimit(doc, h, [empty |-> TRUE, n |-> 0]).doc
              r == sortingWheel(freed, doc.students[i].id, spins, a, redraws)
          IN  /\ r.attempts = maxAttempts /\ r.why = "full"
              /\ r.selectedHouse # h

\* baseAngle after k redraws: finalAngle plus the k deltas (baseAngle += delta)
RECURSIVE angleAfter(_, _, _)
angleAfter(finalAngle, redraws, k) ==
    IF k = 0 THEN finalAngle
    ELSE angleAfter(finalAngle, redraws, k - 1)
            + redraws[k].spins * 360 + redraws[k].randAngle

\* one pass of the loop body on the draw d
drawStep(data, prev, d) ==
    LET base2 == prev.baseAngle + d.spins * 360 + d.randAngle
        index2 == segmentIndex(base2)
        house2 == findHouseByName(data, nameMapping[(index2 % 4) + 1])
    IN  [selectedHouse |-> IF house2 # Null THEN house2 ELSE prev.selectedHouse,
         baseAngle |-> base2]

\* the draws of a loop that never stops: element k + 1 holds selectedHouse and
\* baseAngle after k passes of the loop body, for k = from .. maxAttempts
RECURSIVE drawTrace(_, _, _, _)
drawTrace(data, cur, redraws, from) ==
    IF from = maxAttempts THEN <<cur>>
    ELSE CHOOSE tr \in {<<cur>> \o drawTrace(data, next, redraws, from + 1) :
                           next \in {drawStep(data, cur, redraws[from + 1])}} : TRUE

\* C13: the redraw loop ends for every random source: it makes at most 20
\* redraws after the first draw and stops at the first draw whose resolved
\* house is eligible.
C13_LoopTerminates ==
    doc.houses # <<>> =>
    \A i \in DOMAIN doc.students :
    \A spins \in FirstSpins, a \in Angles, redraws \in WheelStreams :
    \A r \in {sortingWheel(doc, doc.students[i].id, spins, a, redraws)} :
    \A tr \in {drawTrace(doc, [selectedHouse |-> r.firstHouse,
                               baseAngle |-> spins * 360 + a], redraws, 0)} :
        /\ r.attempts \in 0..maxAttempts
        /\ \A k \in 0..(r.attempts - 1) : ~isEligible(doc, tr[k + 1].selectedHouse)
        /\ r.attempts < maxAttempts => isEligible(doc, tr[r.attempts + 1].selectedHouse)
        /\ r.selectedHouse = tr[r.attempts + 1].selectedHouse
        /\ r.baseAngle = tr[r.attempts + 1].baseAngle

\* in one state: a spin that stops at the first draw, one that stops after
\* some redraws, one that finds an eligible house on the 20th redraw, and one
\* that uses up the 20 redraws on an ineligible house
C13_Witness ==
    /\ doc.houses # <<>>
    /\ \E i \in DOMAIN doc.students :
          LET Run(spins, a, redraws) ==
                 sortingWheel(doc, doc.students[i].id, spins, a, redraws)
              Some(P(_)) == \E spins \in FirstSpins, a \in Angles, redraws \in WheelStreams :
                               P(Run(spins, a, redraws))
              AtOnce(r) == r.attempts = 0 /\ r.wrote
              AfterSome(r) == r.attempts \in 1..(maxAttempts - 1) /\ r.wrote
              AtLast(r) == r.attempts = maxAttempts /\ r.wrote
              Never(r) == r.attempts = maxAttempts /\ r.why = "full"
          IN  Some(AtOnce) /\ Some(AfterSome) /\ Some(AtLast) /\ Some(Never)

\* C14: deleting a house to which a student is assigned is refused and leaves
\* the document unchanged; deleting a house with no assigned student removes
\* exactly that house and changes no student, ledger entry or other house.
C14_DeleteHouseGuard ==
    \A j \in DOMAIN doc.houses :
        LET house == doc.houses[j]
            r == deleteHouse(doc, house.id)
        IN  IF \E i \in DOMAIN doc.students : doc.students[i].houseId = house.id
            THEN ~r.ok /\ ~r.wrote /\ r.doc = doc
            ELSE /\ r.ok /\ r.wrote
                 /\ r.doc = [doc EXCEPT !.houses = Splice(doc.houses, j)]

\* two houses, the first one without students but named in a ledger entry,
\* the second one with a student: the first is removed, the second refused
C14_Witness ==
    /\ Len(doc.houses) = 2
    /\ \E t \in DOMAIN doc.transactions : doc.transactions[t].houseId = doc.houses[1].id
    /\ getCount(doc, doc.houses[1].id) = 0
    /\ getCount(doc, doc.houses[2].id) > 0
    /\ deleteHouse(doc, doc.houses[1].id).doc.houses = <<doc.houses[2]>>
    /\ deleteHouse(doc, doc.houses[2].id).why = "assigned"

\* C15: deleting a student who is assigned to a house subtracts exactly that
\* student's current points from that house's points and removes the student;
\* every other house and every other student is unchanged.
C15_DeleteStudentEffect ==
    \A i \in DOMAIN doc.students :
        LET student == doc.students[i]
            r == deleteStudent(doc, student.id)
        IN  /\ r.ok /\ r.wrote
            /\ r.doc.students = Splice(doc.students, i)
            /\ Len(r.doc.houses) = Len(doc.houses)
            /\ \A j \in DOMAIN doc.houses :
                  r.doc.houses[j] =
                     [doc.houses[j] EXCEPT !.points =
                         IF doc.houses[j].id = student.houseId
                         THEN @ - student.points ELSE @]
            /\ r.doc.transactions = doc.transactions

\* a student holding points in one of two houses, next to another student
C15_Witness ==
    \E i \in DOMAIN doc.students :
        LET student == doc.students[i]
            r == deleteStudent(doc, student.id)
        IN  /\ Len(doc.students) = 2 /\ Len(doc.houses) = 2
            /\ student.points # 0
            /\ student.houseId \in Ids(doc.houses)
            /\ PointsOf(r.doc.houses, student.houseId)
                  = PointsOf(doc.houses, student.houseId) - student.points
            /\ r.doc.houses # doc.houses
            /\ Len(r.doc.students) = 1

\* the students a teacher has access to: those granted by id and those whose
\* normalized grade is among the teacher's normalized grades
Accessible(data, teacher) ==
    {data.students[i].id : i \in
        {i \in DOMAIN data.students :
            \/ data.students[i].id \in teacher.accessibleStudentIds
            \/ \E g \in DOMAIN teacher.gradeAccess :
                  normalizeGrade(data.students[i].grade)
                     = normalizeGrade(teacher.gradeAccess[g])}}

\* the students offered by the selects of the award form
Selectable(data, teacher) ==
    LET options == awardOptions(data, teacher) IN
    UNION {{options[i][j] : j \in DOMAIN options[i]} : i \in DOMAIN options}

\* C16: the students a teacher can select in the award form are exactly the
\* students granted by id together with the students granted by grade.
C16_TeacherSelectable ==
    \A teacher \in Teachers : Selectable(doc, teacher) = Accessible(doc, teacher)

\* C17: every ledger entry a teacher creates is for a student in that
\* teacher's accessible set at the time of posting; a teacher with no grade
\* and no explicit grant cannot create an entry or change any points.
C17_TeacherPostsAccessible ==
    \A teacher \in Teachers :
    \A values \in Selections(awardOptions(doc, teacher)) :
    \A amt \in AmountInputs, mode \in Modes :
        LET r == submitAwardForm(doc, selectedStudentId(values), amt, Str_ok, mode)
        IN  /\ r.ok =>
                 r.doc.transactions[Len(r.doc.transactions)].studentId
                    \in Accessible(doc, teacher)
            /\ (teacher.gradeAccess = <<>> /\ teacher.accessibleStudentIds = {}) =>
                 (~r.ok /\ ~r.wrote /\ r.doc = doc)

\* two students of different grades: a teacher of two grades posts for the one
\* in the second select, no selection of a teacher of one grade reaches the
\* other student, and a teacher without grants has nothing to select
C17_Witness ==
    /\ Len(doc.students) = 2
    /\ \E teacher \in Teachers :
          /\ Len(teacher.gradeAccess) > 1
          /\ \E values \in Selections(awardOptions(doc, teacher)) :
                /\ values[1] = Null
                /\ submitAwardForm(doc, selectedStudentId(values),
                                   [nan |-> FALSE, n |-> 1], Str_ok, "add").ok
    /\ \E teacher \in Teachers, i \in DOMAIN doc.students :
          /\ Len(teacher.gradeAccess) = 1
          /\ Selectable(doc, teacher) # {}
          /\ doc.students[i].id \notin Accessible(doc, teacher)
          /\ \A values \in Selections(awardOptions(doc, teacher)) :
                selectedStudentId(values) # doc.students[i].id
    /\ \E teacher \in Teachers :
          /\ teacher.gradeAccess = <<>> /\ teacher.accessibleStudentIds = {}
          /\ Selections(awardOptions(doc, teacher)) = {<<Null>>}

\* Math.floor(Math.random() * 4) + 4: every number of full rotations
AllSpins == 4..7

\* randAngle values of a first draw: on a border and just before one
DrawAngles == Angles \cup {89, 359}

\* (randAngle + randAngle2 of the first k redraws) % 360
RECURSIVE angleSum(_, _, _)
angleSum(randAngle, redraws, k) ==
    IF k = 0 THEN randAngle % 360
    ELSE (angleSum(randAngle, redraws, k - 1) + redraws[k].randAngle) % 360

\* the random source with every rotation count of the redraws replaced by n
withSpins(redraws, n) ==
    [k \in DOMAIN redraws |-> [spins |-> n, randAngle |-> redraws[k].randAngle]]

\* C18: the segment depends on the angle modulo 360 only. The first draw's
\* segment and house are those of randAngle alone, the same for each of the 4
\* to 7 full rotations; after the redraws the segment is that of the sum of
\* the drawn angles modulo 360, and the outcome of the spin does not change
\* when every rotation count is replaced by another one.
C18_SegmentByAngle ==
    /\ \A spins \in AllSpins, a \in BorderAngles :
          segmentIndex(spins * 360 + a) = segmentIndex(a)
    /\ \A i \in DOMAIN doc.students :
       \A a \in DrawAngles, redraws \in WheelStreams :
       \A r \in {sortingWheel(doc, doc.students[i].id, 4, a, redraws)} :
          /\ r.baseAngle % 360 = angleSum(a, redraws, r.attempts)
          /\ segmentIndex(r.baseAngle) = segmentIndex(angleSum(a, redraws, r.attempts))
          /\ \A spins \in AllSpins :
             \A q \in {sortingWheel(doc, doc.students[i].id, spins, a,
                                    withSpins(redraws, spins - 3))} :
                /\ q.firstHouse = r.firstHouse
                /\ q.selectedHouse = r.selectedHouse
                /\ q.attempts = r.attempts
                /\ q.baseAngle % 360 = r.baseAngle % 360
                /\ q.doc = r.doc /\ q.why = r.why

\* a spin that is redrawn and assigns a house of another segment than the
\* first draw's, with the same outcome for 4 and for 7 rotations and for
\* redraws of 1 and of 4 rotations
C18_Witness ==
    \E i \in DOMAIN doc.students :
    \E a \in DrawAngles, redraws \in WheelStreams :
        LET r == sortingWheel(doc, doc.students[i].id, 4, a, redraws)
            q == sortingWheel(doc, doc.students[i].id, 7, a, withSpins(redraws, 4))
        IN  /\ r.attempts > 0 /\ r.wrote
            /\ segmentIndex(r.baseAngle) # segmentIndex(4 * 360 + a)
            /\ r.baseAngle # q.baseAngle
            /\ q.wrote /\ q.doc = r.doc

\* the house a segment stands for: the house named after the segment's
\* category, compared in lower case, else the house at index % houses.length
resolveSegment(data, index) ==
    LET byName == findHouseByName(data, nameMapping[(index % Len(nameMapping)) + 1])
    IN  IF byName # Null THEN byName
        ELSE IF Len(data.houses) > 0
             THEN data.houses[(index % Len(data.houses)) + 1].id
             ELSE Null

\* C19: on every draw of a spin, the first one and each redraw, the selected
\* house is the one the draw's segment stands for: the house with the
\* segment's category name compared case-insensitively, and with no such
\* house the house at position (segment index mod number of houses).
C19_DrawResolution ==
    doc.houses # <<>> =>
    \A i \in DOMAIN doc.students :
    \A spins \in FirstSpins, a \in Angles, redraws \in WheelStreams :
    \A r \in {sortingWheel(doc, doc.students[i].id, spins, a, redraws)} :
    \A tr \in {drawTrace(doc, [selectedHouse |-> r.firstHouse,
                               baseAngle |-> spins * 360 + a], redraws, 0)} :
        \A k \in 0..r.attempts :
            tr[k + 1].selectedHouse
               = resolveSegment(doc, segmentIndex(tr[k + 1].baseAngle))

\* the kinds of entity with a counter: the array and its next-id field
nextIdOf(data, kind) ==
    CASE kind = "house" -> data.nextHouseId
      [] kind = "student" -> data.nextStudentId
      [] kind = "transaction" -> data.nextTransactionId
      [] kind = "reward" -> data.nextRewardId

entitiesOf(data, kind) ==
    CASE kind = "house" -> data.houses
      [] kind = "student" -> data.students
      [] kind = "transaction" -> data.transactions
      [] kind = "reward" -> data.rewards

Kinds == {"house", "student", "transaction", "reward"}

\* ids along the array strictly increasing (entities are pushed in creation
\* order) and all below the counter
IdsInOrder(data, kind) ==
    LET arr == entitiesOf(data, kind) IN
    /\ \A i, j \in DOMAIN arr : i < j => arr[i].id < arr[j].id
    /\ \A i \in DOMAIN arr : arr[i].id < nextIdOf(data, kind)

\* C20: ids are strictly increasing in creation order and never given twice,
\* and a counter stays above every id issued so far. Every id issued equals
\* the counter of its moment, so this says, for each step and each kind: the
\* counter does not decrease, the ids of the stored array are increasing and
\* below the counter, and an id present before and after the step denotes the
\* same house (no handler of this specification renames a house).
C20_IdsNeverReused ==
    [][ /\ \A kind \in Kinds :
            /\ nextIdOf(doc', kind) >= nextIdOf(doc, kind)
            /\ IdsInOrder(doc', kind)
        /\ \A i \in DOMAIN doc.houses, j \in DOMAIN doc'.houses :
              doc.houses[i].id = doc'.houses[j].id
                 => doc.houses[i].name = doc'.houses[j].name ]_vars

\* no two houses with names equal in lower case
uniqueHouseNames(data) ==
    \A i, j \in DOMAIN data.houses :
        i # j => toLowerCase(data.houses[i].name) # toLowerCase(data.houses[j].name)

\* C21: in every reachable state no two houses have names that are equal
\* ignoring case, whether houses are added without a logo, added with a logo
\* whose read completes later, or renamed.
C21_HouseNamesUnique == uniqueHouseNames(doc)

\* no two users with usernames equal in lower case
uniqueUsernames(data) ==
    \A i, j \in DOMAIN data.users :
        i # j => toLowerCase(data.users[i].username) # toLowerCase(data.users[j].username)

\* the create form filled with a username that an existing user has, in any case
TakenUsernames(data) ==
    {u \in UsernameInputs :
        \E i \in DOMAIN data.users :
            toLowerCase(data.users[i].username) = toLowerCase(trim(u))}

\* C22: in every reachable state no two users have usernames equal ignoring
\* case, and creating a teacher under a username that an existing user (the
\* built-in admin included) has, in any case, is refused: nothing is written
\* and the document stays as it was. Checked for the form as it is rendered
\* and for a form on which the house select is found.
C22_UsernamesUnique ==
    /\ uniqueUsernames(doc)
    /\ \A username \in TakenUsernames(doc), grades \in GradeBoxes :
       \A select \in {teacherHouseSelect} \cup HouseSelects(doc) :
          LET r == createTeacher(doc, Str_Al, username, Str_ok, select, grades) IN
          ~r.ok /\ ~r.wrote /\ r.doc = doc
    /\ \A username \in UsernameInputs, grades \in GradeBoxes :
       \A select \in {teacherHouseSelect} \cup HouseSelects(doc) :
          uniqueUsernames(createTeacher(doc, Str_Al, username, Str_ok, select, grades).doc)

\* a document with a house and two teachers, and the form submitted with
\* " Admin" and with "T1", both taken: refused as rendered, and refused as a
\* duplicate where the select is found
C22_Witness ==
    /\ Cardinality(teacherNames(doc)) = 2
    /\ Cardinality(TakenUsernames(doc)) = 2
    /\ \E h \in Ids(doc.houses) :
       \A username \in TakenUsernames(doc) :
          /\ createTeacher(doc, Str_Al, username, Str_ok, teacherHouseSelect, <<>>).why
                = "TypeError"
          /\ createTeacher(doc, Str_Al, username, Str_ok,
                           [found |-> TRUE, value |-> h], <<>>).why = "duplicate"
          /\ createTeacher(doc, Str_Al, <<"t", "3">>, Str_ok,
                           [found |-> TRUE, value |-> h], <<>>).wrote

\* what ensureSchema promises of the loaded `data`: every teacher has both
\* fields as arrays, empty where they were missing, and nothing else differs
backfilled(stored, data) ==
    /\ DOMAIN data.users = DOMAIN stored.users
    /\ \A i \in DOMAIN stored.users :
          LET old == stored.users[i]
              new == data.users[i]
          IN  IF old.role = "teacher"
              THEN /\ new.username = old.username /\ new.role = old.role
                   /\ new.gradeAccess.isArray /\ new.accessibleStudentIds.isArray
                   /\ new.gradeAccess =
                         (IF old.gradeAccess.isArray THEN old.gradeAccess ELSE Arr(<<>>))
                   /\ new.accessibleStudentIds =
                         (IF old.accessibleStudentIds.isArray
                          THEN old.accessibleStudentIds ELSE Arr(<<>>))
              ELSE new = old
    /\ [data EXCEPT !.users = stored.users] = stored

\* C23: loading a stored document backfills the missing accessibleStudentIds
\* and gradeAccess of its teachers with empty arrays and changes nothing
\* else, and the load writes the repaired document back: once a page has been
\* shown, the stored document is the repaired one.
C23_LoadBackfillsAndPersists ==
    LET r == showSection(doc) IN
    /\ backfilled(doc, r.data)
    /\ r.doc = r.data

\* the teacher's accessibleStudentIds in a freshly loaded document
storedIds(stored, username) ==
    LET data == loadData(stored)
        i == CHOOSE k \in DOMAIN data.users : data.users[k].username = username
    IN  data.users[i].accessibleStudentIds.items

\* the elements of a sequence
Range(seq) == {seq[i] : i \in DOMAIN seq}

\* C24: after boxes are toggled in the Manage Assigned modal of a teacher and
\* Save is pressed, a freshly loaded document shows that teacher's
\* accessibleStudentIds equal to exactly the checked set of student ids.
C24_AssignedPersisted ==
    \A username \in teacherNames(doc), checked \in Orders(Ids(doc.students)) :
        LET r == assignStudents(doc, username, checked) IN
        /\ r.wrote
        /\ Range(storedIds(r.doc, username)) = Range(checked)

\* the canonical grade labels
Canonical == { <<"K">>, <<"1">>, <<"2">>, <<"3">>, <<"4">>, <<"5">> }

\* C25: whatever the grade value, each of the normalizeGrade routines returns
\* the empty string or one of K, 1, 2, 3, 4, 5, and nothing else.
C25_CanonicalResults ==
    \A res \in {call.award, call.teacher, call.students} :
        res.done => res.value \in Canonical \cup {<<>>}

\* C26: normalizing a result again gives the same result, for every value
\* normalized, with "Kindergarten" giving "K", "5th Grade" and "05" giving
\* "5" and the empty string giving the empty string.
C26_Idempotent ==
    /\ call.again.done => call.again.value = call.award.value
    /\ call.award.done =>
          /\ call.g = Str(<<"K", "i", "n", "d", "e", "r", "g", "a", "r", "t", "e", "n">>) => call.award.value = <<"K">>
          /\ call.g = Str(<<"5", "t", "h", " ", "G", "r", "a", "d", "e">>) => call.award.value = <<"5">>
          /\ call.g = Str(<<"0", "5">>) => call.award.value = <<"5">>
          /\ call.g = Str(<<>>) => call.award.value = <<>>

\* "05" normalized to "5" and "5" normalized again to "5"
C26_Witness ==
    /\ call.g = Str(<<"0", "5">>)
    /\ call.again.done
    /\ call.award.value = <<"5">> /\ call.again.value = <<"5">>

\* C27: the three normalizeGrade routines return the same result for every
\* value, missing values and numbers included.
C27_RoutinesAgree ==
    (call.award.done /\ call.teacher.done /\ call.students.done) =>
        /\ call.award.value = call.teacher.value
        /\ call.teacher.value = call.students.value

\* C28: the completion of a deferred file read loses no update: whatever was
\* stored between the loading of the handler's `data` and the completion is
\* still stored after the completion has saved, so the completion's write is
\* the stored document of that moment with the new house added.
C28_NoLostUpdate ==
    [][ (read.busy /\ ~read'.busy)
           => doc' = createHouse(loadData(doc), read.name).doc ]_vars

\* what a ledger operation leaves alone in the stored document: the points of
\* all students but one and of all houses but one, every houseId, the users,
\* the rewards, the limits and the house, student and reward counters
ledgerFrame(old, new) ==
    /\ Len(new.students) = Len(old.students)
    /\ Len(new.houses) = Len(old.houses)
    /\ Cardinality({i \in DOMAIN old.students :
                       new.students[i].points # old.students[i].points}) <= 1
    /\ Cardinality({i \in DOMAIN old.houses :
                       new.houses[i].points # old.houses[i].points}) <= 1
    /\ \A i \in DOMAIN old.students :
          [new.students[i] EXCEPT !.points = 0] = [old.students[i] EXCEPT !.points = 0]
    /\ \A i \in DOMAIN old.houses :
          [new.houses[i] EXCEPT !.points = 0] = [old.houses[i] EXCEPT !.points = 0]
    /\ new.rewards = old.rewards
    /\ new.houseLimits = old.houseLimits
    /\ new.nextHouseId = old.nextHouseId
    /\ new.nextStudentId = old.nextStudentId
    /\ new.nextRewardId = old.nextRewardId

\* C29: a successful award or deduct submission and a successful
\* deleteTransaction change the points of at most one student and of at most
\* one house, change no other ledger entry, and leave the users, the rewards,
\* houseLimits, every student's houseId and the house, student and reward id
\* counters of the stored document as they were.
C29_LedgerFrame ==
    /\ \A in \in Submissions :
          LET r == submitAwardForm(doc, in.sid, in.amt, in.note, in.mode) IN
          r.ok => /\ ledgerFrame(doc, r.doc)
                  /\ r.doc.users = doc.users
                  /\ Len(r.doc.transactions) = Len(doc.transactions) + 1
                  /\ SubSeq(r.doc.transactions, 1, Len(doc.transactions)) = doc.transactions
    /\ \A tid \in TxnIds :
          LET r == deleteTransaction(doc, tid) IN
          r.ok => /\ ledgerFrame(doc, r.doc)
                  /\ r.doc.users = doc.users
                  /\ \E idx \in DOMAIN doc.transactions :
                        /\ doc.transactions[idx].id = tid
                        /\ r.doc.transactions = Splice(doc.transactions, idx)

\* C30: in every state reached by adding students, assigning by the sorting
\* wheel, reassigning by the edit overlay and deleting houses, the houseId of
\* each student is null or the id of a house of the stored document.
C30_HouseIdsResolve ==
    \A i \in DOMAIN doc.students :
        \/ doc.students[i].houseId = Null
        \/ doc.students[i].houseId \in Ids(doc.houses)

\* a house has been deleted, a student is in a remaining house, and deleting
\* that house is refused
C30_Witness ==
    /\ C30_HouseIdsResolve
    /\ doc.nextHouseId - 1 > Len(doc.houses)
    /\ \E i \in DOMAIN doc.students :
          /\ doc.students[i].houseId # Null
          /\ ~deleteHouse(doc, doc.students[i].houseId).ok
          /\ deleteHouse(doc, doc.students[i].houseId).doc = doc

====
